---- MODULE Spec2Model ----
(***************************************************************************)
(* Model of src/engine/transaction_retry.rs: the confirmation verifier     *)
(* (verify_transaction_with_retry) and the resilient sell executor         *)
(* (execute_sell_with_retry) with its two venue attempts, run against a    *)
(* ledger whose transactions advance on their own.                         *)
(***************************************************************************)
EXTENDS Integers, Sequences, FiniteSets, TLC

VARIABLES
    pc,                \* position of the executor / verifier task
    attempt_count,     \* execute_sell_with_retry: let mut attempt_count
    last_error,        \* execute_sell_with_retry: let mut last_error (Option<String>)
    signature,         \* the signature the running venue attempt returned (0: none)
    venue,             \* which phase called the verifier: "primary", "fallback", "none"
    retry_count,       \* verify_transaction_with_retry: let mut retry_count
    max_retries,       \* verify_transaction_with_retry: parameter max_retries
    verify_result,     \* value returned by the verifier: "pending", "Ok(true)", "Ok(false)", "Err"
    polled,            \* responses the running verifier call got from get_signature_status
    sleeps,            \* sleep(RETRY_DELAY) calls made by the running verifier call
    returned,          \* variant execute_sell_with_retry returned: "pending", "Ok", "Err"
    result,            \* the SellTransactionResult returned
    ledger,            \* ledger status of every signature
    submitted,         \* the transactions submitted so far, in order: venue and attempt
    queries,           \* status queries made per signature
    observed,          \* signatures for which a status query returned Confirmed/Finalized
    primary_calls,     \* calls of execute_raydium_sell_attempt
    fallback_calls,    \* calls of execute_jupiter_sell_attempt
    delays,            \* sleep(RETRY_DELAY) calls made by the executor loop
    last_failure,      \* the most recent Err value met by the executor
    steps,             \* calls made so far by the venue attempt started last
    txn,               \* extractor: the streamed update handed to process_transaction
    now,               \* extractor: the wall clock, in seconds
    calls,             \* extractor: what each process_transaction call returned
    quote,             \* fallback venue: the get_quote request made for a trade record
    tasks,             \* concurrent invocations: the locals of each execute_sell_with_retry
    heard              \* concurrent invocations: the answers each one received, in order

sell_vars == << pc, attempt_count, last_error, signature, venue, retry_count,
                max_retries, verify_result, polled, sleeps, returned, result,
                ledger, submitted, queries, observed, primary_calls, fallback_calls,
                delays, last_failure, steps >>

parser_vars == << txn, now, calls, quote >>

task_vars == << tasks, heard >>

vars == << sell_vars, parser_vars, task_vars >>

exec_vars == << attempt_count, last_error, returned, result, submitted,
                primary_calls, fallback_calls, delays, last_failure >>

-----------------------------------------------------------------------------
(* Program constants *)

MAX_RETRIES == 3

VERIFY_RETRIES == 3

(* Bounds of the model *)

MaxVerifyAttempts == 5

MaxLogs == 2

MaxBalances == 3

MaxClock == 1

-----------------------------------------------------------------------------
(* Option values: None is the empty tuple, Some(x) the one-element tuple. *)

None == << >>

Some(x) == << x >>

Signatures == 1 .. (MAX_RETRIES + 1)

(* Ledger status of one signature.  A transaction lands with or without an  *)
(* execution error and then moves Processed -> Confirmed -> Finalized.      *)

Unseen == [seen |-> FALSE, confirmation_status |-> "None", err |-> FALSE]

Landed(level, failed) == [seen |-> TRUE, confirmation_status |-> level, err |-> failed]

(* Responses of rpc_client.get_signature_status(signature).await *)

QueryError == [kind |-> "Err", confirmation_status |-> "None", err |-> FALSE]

NotFound == [kind |-> "None", confirmation_status |-> "None", err |-> FALSE]

Status(level, failed) == [kind |-> "Some", confirmation_status |-> level, err |-> failed]

Responses ==
    {QueryError, NotFound}
        \cup {Status(l, e) : l \in {"Processed", "Confirmed", "Finalized"}, e \in BOOLEAN}

get_signature_status(sig) ==
    {QueryError}
        \cup (IF ledger[sig].seen
              THEN {Status(ledger[sig].confirmation_status, ledger[sig].err)}
              ELSE {NotFound})

-----------------------------------------------------------------------------
(* verify_transaction_with_retry *)

(* Variant: only Finalized ends the polling. *)
IsVerified_FinalizedOnly(resp) ==
    /\ resp.kind = "Some"
    /\ resp.confirmation_status = "Finalized"

IsVerified(resp) ==
    /\ resp.kind = "Some"
    /\ resp.confirmation_status \in {"Confirmed", "Finalized"}

(* Variant: the loop bound is off by one. *)
VerifyLoopCond_Inclusive(count, budget) == count <= budget

VerifyLoopCond(count, budget) == count < budget

(* Variant: no backoff once the budget is used up. *)
VerifyBackoff_NotAfterLast(count, budget) == count < budget

(* sleep(RETRY_DELAY) follows retry_count += 1 in each of the three failing *)
(* arms, whatever the count.                                                *)
VerifyBackoff(count, budget) == TRUE

(* One turn of the while loop: the status query and the match on its answer. *)
VerifyStep(resp) ==
    /\ pc = "verify"
    /\ VerifyLoopCond(retry_count, max_retries)
    /\ polled' = Append(polled, resp)
    /\ queries' = [queries EXCEPT ![signature] = @ + 1]
    /\ IF IsVerified(resp)
       THEN /\ verify_result' = "Ok(true)"
            /\ pc' = "verify_ret"
            /\ observed' = observed \cup {signature}
            /\ UNCHANGED << retry_count, sleeps >>
       ELSE /\ retry_count' = retry_count + 1
            /\ sleeps' = sleeps + (IF VerifyBackoff(retry_count', max_retries) THEN 1 ELSE 0)
            /\ UNCHANGED << pc, verify_result, observed >>
    /\ UNCHANGED << signature, venue, max_retries, ledger, steps >>
    /\ UNCHANGED << exec_vars, parser_vars, task_vars >>

(* The verifier polling the ledger of the model. *)
VerifyQuery ==
    /\ pc = "verify"
    /\ venue # "none"
    /\ \E resp \in get_signature_status(signature) : VerifyStep(resp)

(* The verifier given an arbitrary answer by its ledger client. *)
VerifyAnyAnswer ==
    /\ pc = "verify"
    /\ venue = "none"
    /\ \E resp \in Responses : VerifyStep(resp)

(* The loop ends without a confirmation: Err(anyhow!(...)). *)
VerifyExhausted ==
    /\ pc = "verify"
    /\ ~ VerifyLoopCond(retry_count, max_retries)
    /\ verify_result' = "Err"
    /\ pc' = "verify_ret"
    /\ UNCHANGED << signature, venue, retry_count, max_retries, polled, sleeps,
                    ledger, queries, observed, steps >>
    /\ UNCHANGED << exec_vars, parser_vars, task_vars >>

-----------------------------------------------------------------------------
(* execute_raydium_sell_attempt and execute_jupiter_sell_attempt: the Err   *)
(* values each can return; "Ok" stands for Ok(signature).                   *)

RaydiumErrors ==
    { "Failed to build Raydium swap",
      "Failed to get recent blockhash",
      "Failed to send Raydium transaction",
      "No signature returned from Raydium transaction",
      "Failed to parse signature" }

JupiterErrors ==
    { "Failed to get wallet public key",
      "Invalid token mint",
      "Failed to get Jupiter quote",
      "Failed to get Jupiter swap transaction",
      "Failed to send Jupiter transaction" }

(* Variant: a failed build or blockhash does not end the attempt. *)
RaydiumSteps_NoEarlyExit(out) == << "build", "blockhash", "submit" >>

(* The calls one primary venue attempt makes before it returns `out`: each  *)
(* `?` ends the attempt at the first failing call.                          *)
RaydiumSteps(out) ==
    CASE out = "Failed to build Raydium swap" -> << "build" >>
      [] out = "Failed to get recent blockhash" -> << "build", "blockhash" >>
      [] OTHER -> << "build", "blockhash", "submit" >>

(* The calls one fallback venue attempt makes before it returns `out`. *)
JupiterSteps(out) ==
    CASE out \in {"Failed to get wallet public key", "Invalid token mint"} -> << >>
      [] out = "Failed to get Jupiter quote" -> << "quote" >>
      [] out = "Failed to get Jupiter swap transaction" -> << "quote", "route" >>
      [] OTHER -> << "quote", "route", "submit" >>

NextSignature == Len(submitted) + 1

Submission(by, n) == [venue |-> by, attempt |-> n]

(* The relay of the primary venue hands the transaction to the network:    *)
(* nothing is known of it on the ledger yet.                               *)
execute_raydium_sell_attempt == RaydiumErrors \cup {"Ok"}

(* send_and_confirm_transaction returns Ok only for a transaction it saw   *)
(* on the ledger without an execution error.                               *)
execute_jupiter_sell_attempt == JupiterErrors \cup {"Ok"}

SendAndConfirmed == {Landed(l, FALSE) : l \in {"Processed", "Confirmed", "Finalized"}}

-----------------------------------------------------------------------------
(* execute_sell_with_retry *)

SellTransactionResult(ok, sig, err, fallback, count) ==
    [ success |-> ok, signature |-> sig, error |-> err,
      used_jupiter_fallback |-> fallback, attempt_count |-> count ]

NoResult == SellTransactionResult(FALSE, None, None, FALSE, 0)

(* Variant: the primary loop gives up one attempt early. *)
PrimaryLoopCond_Short(count) == count < MAX_RETRIES - 1

PrimaryLoopCond(count) == count < MAX_RETRIES

(* Variant: the inter-attempt sleep is taken after every failed attempt. *)
DelayCond_Always(count) == TRUE

DelayCond(count) == count < MAX_RETRIES

(* Variant: the error recorded by an earlier attempt is not cleared. *)
PrimarySuccess_StaleError(sig, count) ==
    SellTransactionResult(TRUE, Some(sig), last_error, FALSE, count)

PrimarySuccess(sig, count) == SellTransactionResult(TRUE, Some(sig), None, FALSE, count)

(* Variant: the fallback attempt is added to the count. *)
FallbackSuccess_Counted(sig, count) ==
    SellTransactionResult(TRUE, Some(sig), None, TRUE, count + 1)

FallbackSuccess(sig, count) == SellTransactionResult(TRUE, Some(sig), None, TRUE, count)

(* Variant: the failure outcome carries the last signature sent. *)
FinalFailure_WithSignature(err, count) ==
    SellTransactionResult(FALSE, Some(Len(submitted)), err, TRUE, count)

(* Variant: the failure outcome counts the fallback attempt. *)
FinalFailure_Counted(err, count) ==
    SellTransactionResult(FALSE, None, err, TRUE, count + 1)

FinalFailure(err, count) == SellTransactionResult(FALSE, None, err, TRUE, count)

RaydiumSellFailed(e) == Some(<< "Raydium sell failed", e >>)

PrimaryVerifyError(r) ==
    IF r = "Ok(false)"
    THEN Some(<< "Transaction verification failed" >>)
    ELSE Some(<< "Transaction verification error",
                 "Transaction verification failed after retries" >>)

JupiterSellFailed(e) == Some(<< "Jupiter sell failed", e >>)

(* Variant: a failed fallback verification records nothing. *)
FallbackVerifyError_NotRecorded(r) == last_error

FallbackVerifyError(r) ==
    IF r = "Ok(false)"
    THEN Some(<< "Jupiter transaction verification failed" >>)
    ELSE Some(<< "Jupiter transaction verification error",
                 "Transaction verification failed after retries" >>)

(* Entering the verifier: retry_count = 0, max_retries = the literal 3. *)
CallVerifier(by) ==
    /\ pc' = "verify"
    /\ venue' = by
    /\ retry_count' = 0
    /\ max_retries' = VERIFY_RETRIES
    /\ verify_result' = "pending"
    /\ polled' = << >>
    /\ sleeps' = 0

(* What follows the match of one primary attempt: the optional sleep, then  *)
(* the loop head.                                                           *)
AfterPrimaryAttempt(count) == IF DelayCond(count) THEN "delay" ELSE "loop"

(* Loop head, attempt_count += 1 and the primary venue attempt. *)
PrimaryAttempt ==
    /\ pc = "loop"
    /\ PrimaryLoopCond(attempt_count)
    /\ attempt_count' = attempt_count + 1
    /\ primary_calls' = primary_calls + 1
    /\ \E out \in execute_raydium_sell_attempt :
         /\ steps' = RaydiumSteps(out) \o (IF out = "Ok" THEN << "verify" >> ELSE << >>)
         /\ IF out = "Ok"
            THEN /\ signature' = NextSignature
                 /\ submitted' = Append(submitted, Submission("primary", attempt_count'))
                 /\ CallVerifier("primary")
                 /\ UNCHANGED << last_error, last_failure >>
            ELSE /\ last_error' = RaydiumSellFailed(out)
                 /\ last_failure' = << "primary", out >>
                 /\ pc' = AfterPrimaryAttempt(attempt_count')
                 /\ UNCHANGED << signature, submitted, venue, retry_count, max_retries,
                                 verify_result, polled, sleeps >>
    /\ UNCHANGED << returned, result, ledger, queries, observed, fallback_calls, delays >>
    /\ UNCHANGED << parser_vars, task_vars >>

(* The verifier returned to the primary loop. *)
PrimaryVerified ==
    /\ pc = "verify_ret"
    /\ venue = "primary"
    /\ IF verify_result = "Ok(true)"
       THEN /\ returned' = "Ok"
            /\ result' = PrimarySuccess(signature, attempt_count)
            /\ pc' = "done"
            /\ UNCHANGED << last_error, last_failure >>
       ELSE /\ last_error' = PrimaryVerifyError(verify_result)
            /\ last_failure' = << "primary", "verification" >>
            /\ pc' = AfterPrimaryAttempt(attempt_count)
            /\ UNCHANGED << returned, result >>
    /\ UNCHANGED << attempt_count, signature, venue, retry_count, max_retries,
                    verify_result, polled, sleeps, ledger, submitted, queries,
                    observed, primary_calls, fallback_calls, delays, steps >>
    /\ UNCHANGED << parser_vars, task_vars >>

(* sleep(RETRY_DELAY) between two primary attempts. *)
RetryDelay ==
    /\ pc = "delay"
    /\ delays' = delays + 1
    /\ pc' = "loop"
    /\ UNCHANGED << attempt_count, last_error, signature, venue, retry_count,
                    max_retries, verify_result, polled, sleeps, returned, result,
                    ledger, submitted, queries, observed, primary_calls,
                    fallback_calls, last_failure, steps >>
    /\ UNCHANGED << parser_vars, task_vars >>

(* The loop is left; the fallback venue attempt. *)
FallbackAttempt ==
    /\ pc = "loop"
    /\ ~ PrimaryLoopCond(attempt_count)
    /\ fallback_calls' = fallback_calls + 1
    /\ \E out \in execute_jupiter_sell_attempt :
         /\ steps' = JupiterSteps(out) \o (IF out = "Ok" THEN << "verify" >> ELSE << >>)
         /\ IF out = "Ok"
            THEN /\ signature' = NextSignature
                 /\ submitted' = Append(submitted, Submission("fallback", attempt_count))
                 /\ \E st \in SendAndConfirmed :
                       ledger' = [ledger EXCEPT ![NextSignature] = st]
                 /\ CallVerifier("fallback")
                 /\ UNCHANGED << last_error, last_failure, returned, result >>
            ELSE /\ last_error' = JupiterSellFailed(out)
                 /\ last_failure' = << "fallback", out >>
                 /\ returned' = "Ok"
                 /\ result' = FinalFailure(last_error', attempt_count)
                 /\ pc' = "done"
                 /\ UNCHANGED << signature, submitted, ledger, venue, retry_count,
                                 max_retries, verify_result, polled, sleeps >>
    /\ UNCHANGED << attempt_count, queries, observed, primary_calls, delays >>
    /\ UNCHANGED << parser_vars, task_vars >>

(* The verifier returned to the fallback phase. *)
FallbackVerified ==
    /\ pc = "verify_ret"
    /\ venue = "fallback"
    /\ returned' = "Ok"
    /\ pc' = "done"
    /\ IF verify_result = "Ok(true)"
       THEN /\ result' = FallbackSuccess(signature, attempt_count)
            /\ UNCHANGED << last_error, last_failure >>
       ELSE /\ last_error' = FallbackVerifyError(verify_result)
            /\ last_failure' = << "fallback", "verification" >>
            /\ result' = FinalFailure(last_error', attempt_count)
    /\ UNCHANGED << attempt_count, signature, venue, retry_count, max_retries,
                    verify_result, polled, sleeps, ledger, submitted, queries,
                    observed, primary_calls, fallback_calls, delays, steps >>
    /\ UNCHANGED << parser_vars, task_vars >>

-----------------------------------------------------------------------------
(* The ledger: a submitted transaction may land, with or without an         *)
(* execution error, and a landed one may be confirmed and then finalized,   *)
(* at any time.                                                             *)

LedgerAdvance ==
    /\ venue # "none"
    /\ \E s \in 1 .. Len(submitted) :
         \/ /\ ~ ledger[s].seen
            /\ \E e \in BOOLEAN :
                 ledger' = [ledger EXCEPT ![s] = Landed("Processed", e)]
         \/ /\ ledger[s].seen
            /\ ledger[s].confirmation_status = "Processed"
            /\ ledger' = [ledger EXCEPT ![s].confirmation_status = "Confirmed"]
         \/ /\ ledger[s].seen
            /\ ledger[s].confirmation_status = "Confirmed"
            /\ ledger' = [ledger EXCEPT ![s].confirmation_status = "Finalized"]
    /\ UNCHANGED << pc, signature, venue, retry_count, max_retries, verify_result,
                    polled, sleeps, queries, observed, steps >>
    /\ UNCHANGED << exec_vars, parser_vars, task_vars >>

-----------------------------------------------------------------------------
(* Specifications *)

ParserIdle ==
    /\ txn = << >>
    /\ now = 0
    /\ calls = << >>
    /\ quote = << >>

TasksIdle ==
    /\ tasks = << >>
    /\ heard = << >>

Init ==
    /\ pc = "loop"
    /\ attempt_count = 0
    /\ last_error = None
    /\ signature = 0
    /\ venue = "idle"
    /\ retry_count = 0
    /\ max_retries = VERIFY_RETRIES
    /\ verify_result = "pending"
    /\ polled = << >>
    /\ sleeps = 0
    /\ returned = "pending"
    /\ result = NoResult
    /\ ledger = [s \in Signatures |-> Unseen]
    /\ submitted = << >>
    /\ queries = [s \in Signatures |-> 0]
    /\ observed = {}
    /\ primary_calls = 0
    /\ fallback_calls = 0
    /\ delays = 0
    /\ last_failure = << >>
    /\ steps = << >>
    /\ ParserIdle
    /\ TasksIdle

Executor ==
    \/ PrimaryAttempt
    \/ VerifyQuery
    \/ VerifyExhausted
    \/ PrimaryVerified
    \/ RetryDelay
    \/ FallbackAttempt
    \/ FallbackVerified

Next == Executor \/ LedgerAdvance

Spec == Init /\ [][Next]_vars

(* The task is scheduled until it returns: the executor's own steps are     *)
(* taken whenever one is enabled.  Nothing is assumed of the ledger.        *)
FairSpec == Spec /\ WF_vars(Executor)

(* verify_transaction_with_retry alone, called with any max_retries up to   *)
(* MaxVerifyAttempts for one signature, and answered arbitrarily.           *)
VerifierInit ==
    /\ pc = "verify"
    /\ max_retries \in 0 .. MaxVerifyAttempts
    /\ attempt_count = 0
    /\ last_error = None
    /\ signature = 1
    /\ venue = "none"
    /\ retry_count = 0
    /\ verify_result = "pending"
    /\ polled = << >>
    /\ sleeps = 0
    /\ returned = "pending"
    /\ result = NoResult
    /\ ledger = [s \in Signatures |-> Unseen]
    /\ submitted = << Submission("primary", 0) >>
    /\ queries = [s \in Signatures |-> 0]
    /\ observed = {}
    /\ primary_calls = 0
    /\ fallback_calls = 0
    /\ delays = 0
    /\ last_failure = << >>
    /\ steps = << >>
    /\ ParserIdle
    /\ TasksIdle

VerifierNext == VerifyAnyAnswer \/ VerifyExhausted

VerifierSpec == VerifierInit /\ [][VerifierNext]_vars

-----------------------------------------------------------------------------
(* src/engine/transaction_parser.rs: the trade event extractor.             *)
(* A string is the sequence of its words; contains() is the search for a    *)
(* contiguous run of words.                                                 *)

contains(text, pattern) ==
    \E i \in 0 .. (Len(text) - Len(pattern)) :
        \A j \in 1 .. Len(pattern) : text[i + j] = pattern[j]

BuyLiteral == << "Program", "log:", "Instruction:", "Buy" >>

SellLiteral == << "Program", "log:", "Instruction:", "Sell" >>

SwapLiteral == << "Program", "log:", "Instruction:", "Swap" >>

WSOL_MINT == "So11111111111111111111111111111111111111112"

DEFAULT_MINT == "2ivzYvjnKqA4X3dVvPKr7bctGpbxwrXbbxm44TJCpump"

RAYDIUM_LAUNCHPAD_PROGRAM == "RaydiumLaunchpadProgramId"

(* The streamed updates the extractor is given. *)

LogLines ==
    { BuyLiteral, SellLiteral, SwapLiteral,
      << "Program", "log:", "memo", "Instruction:", "Buy" >> }

Mints == { WSOL_MINT, "TokenX", "" }

SeqsUpTo(S, n) == UNION { [1 .. k -> S] : k \in 0 .. n }

KeyLists ==
    { << "OtherProgram" >>,
      << RAYDIUM_LAUNCHPAD_PROGRAM >>,
      << "OtherProgram", RAYDIUM_LAUNCHPAD_PROGRAM >> }

Instr(data) == [data |-> data]

Inner(instructions) == [instructions |-> instructions]

InnerInstructionLists ==
    { None,
      Some(<< >>),
      Some(<< Inner(<< Instr(None) >>) >>),
      Some(<< Inner(<< Instr(Some("payload")) >>) >>),
      Some(<< Inner(<< >>), Inner(<< Instr(None), Instr(Some("payload")) >>) >>) }

Messages == {None} \cup { Some([account_keys |-> k]) : k \in KeyLists }

Transactions == {None} \cup { Some([message |-> m]) : m \in Messages }

MetasWith(logs, balances) ==
    {None} \cup
    { Some([ log_messages |-> l, post_token_balances |-> b, inner_instructions |-> ii ]) :
        l \in logs, b \in balances, ii \in InnerInstructionLists }

UpdatesWith(logs, balances) ==
    { [transaction |-> None] } \cup
    { [transaction |-> Some([transaction |-> t, meta |-> me])] :
        t \in Transactions, me \in MetasWith(logs, balances) }

(* Every log list with two balance lists, and every balance list with two   *)
(* log lists: the direction is read from the logs and the mint from the     *)
(* balances.                                                                *)
Updates ==
    UpdatesWith(SeqsUpTo(LogLines, MaxLogs), { << >>, << WSOL_MINT, "TokenX" >> })
        \cup UpdatesWith({ << >>, << BuyLiteral >> }, SeqsUpTo(Mints, MaxBalances))

(* Variant: the Swap marker is not taken for a buy. *)
has_buy_instruction_BuyOnly(t) ==
    IF t.transaction # None /\ t.transaction[1].meta # None
    THEN LET logs == t.transaction[1].meta[1].log_messages IN
         \E i \in 1 .. Len(logs) : contains(logs[i], BuyLiteral)
    ELSE FALSE

(* has_buy_instruction *)
has_buy_instruction(t) ==
    IF t.transaction # None /\ t.transaction[1].meta # None
    THEN LET logs == t.transaction[1].meta[1].log_messages IN
         \E i \in 1 .. Len(logs) :
             contains(logs[i], BuyLiteral) \/ contains(logs[i], SwapLiteral)
    ELSE FALSE

(* has_sell_instruction: defined in the source and called nowhere. *)
has_sell_instruction(t) ==
    IF t.transaction # None /\ t.transaction[1].meta # None
    THEN LET logs == t.transaction[1].meta[1].log_messages IN
         \E i \in 1 .. Len(logs) :
             contains(logs[i], SellLiteral) \/ contains(logs[i], SwapLiteral)
    ELSE FALSE

(* Variant: every wrapped-native snapshot is skipped, not only the first. *)
MintOfBalances_SkipAllWsol(balances) ==
    LET others == SelectSeq(balances, LAMBDA m : m # WSOL_MINT)
        mint   == IF others # << >> THEN others[1]
                  ELSE IF balances # << >> THEN balances[1] ELSE ""
    IN  IF mint = "" THEN DEFAULT_MINT ELSE mint

(* extract_token_info, on the post-trade token balances *)
MintOfBalances(balances) ==
    LET first == IF balances # << >> THEN balances[1] ELSE ""
        mint  == IF first = WSOL_MINT /\ Len(balances) > 1 THEN balances[2] ELSE first
    IN  IF mint = "" THEN DEFAULT_MINT ELSE mint

extract_token_info(t) ==
    IF t.transaction # None /\ t.transaction[1].meta # None
    THEN MintOfBalances(t.transaction[1].meta[1].post_token_balances)
    ELSE DEFAULT_MINT

(* SystemTime::now().duration_since(UNIX_EPOCH).as_secs() *)
Timestamp(clock) == clock

(* parse_transaction_data: sol_change is in tenths, the two reserves are    *)
(* kept as the digits the source writes.                                    *)
parse_transaction_data(t, buffer, clock) ==
    LET is_buy == has_buy_instruction(t) IN
    Some([ dex_type |-> "RaydiumLaunchpad",
           slot |-> 0,
           signature |-> "",
           pool_id |-> "",
           mint |-> extract_token_info(t),
           timestamp |-> Timestamp(clock),
           is_buy |-> is_buy,
           price |-> 1000000000,
           is_reverse |-> FALSE,
           coin_creator |-> None,
           sol_change |-> IF is_buy THEN -1 ELSE 1,
           token_change |-> IF is_buy THEN 1000000 ELSE -1000000,
           liquidity |-> 1000,
           virtual_sol_reserves |-> "30000000000",
           virtual_token_reserves |-> "1000000000000000" ])

(* The payloads of the inner instructions, in the order the two for loops   *)
(* visit them.                                                              *)
RECURSIVE Payloads(_)
Payloads(inner_instructions) ==
    IF inner_instructions = << >>
    THEN << >>
    ELSE SelectSeq(Head(inner_instructions).instructions, LAMBDA ins : ins.data # None)
            \o Payloads(Tail(inner_instructions))

(* The first Some that parse_transaction_data returns over the payloads. *)
RECURSIVE FirstParsed(_, _, _)
FirstParsed(t, payloads, clock) ==
    IF payloads = << >>
    THEN None
    ELSE LET trade_info == parse_transaction_data(t, Head(payloads).data[1], clock) IN
         IF trade_info # None THEN trade_info ELSE FirstParsed(t, Tail(payloads), clock)

(* Variant: the account keys are not looked at. *)
InvolvesProgram_Unchecked(account_keys) == TRUE

InvolvesProgram(account_keys) ==
    \E i \in 1 .. Len(account_keys) : account_keys[i] = RAYDIUM_LAUNCHPAD_PROGRAM

(* process_transaction *)
process_transaction(t, clock) ==
    IF t.transaction = None THEN None
    ELSE LET tx_inner == t.transaction[1] IN
    IF tx_inner.transaction = None THEN None
    ELSE IF tx_inner.transaction[1].message = None THEN None
    ELSE IF ~ InvolvesProgram(tx_inner.transaction[1].message[1].account_keys) THEN None
    ELSE IF tx_inner.meta = None THEN None
    ELSE IF tx_inner.meta[1].inner_instructions = None THEN None
    ELSE FirstParsed(t, Payloads(tx_inner.meta[1].inner_instructions[1]), clock)

(* One call of the extractor, at whatever time the wall clock has reached. *)
ProcessTransaction ==
    /\ Len(calls) < 2
    /\ \E clock \in now .. MaxClock :
         /\ now' = clock
         /\ calls' = Append(calls, process_transaction(txn, clock))
    /\ UNCHANGED << txn, quote >>
    /\ UNCHANGED << sell_vars, task_vars >>

SellIdle ==
    /\ pc = "idle"
    /\ attempt_count = 0
    /\ last_error = None
    /\ signature = 0
    /\ venue = "idle"
    /\ retry_count = 0
    /\ max_retries = VERIFY_RETRIES
    /\ verify_result = "pending"
    /\ polled = << >>
    /\ sleeps = 0
    /\ returned = "pending"
    /\ result = NoResult
    /\ ledger = [s \in Signatures |-> Unseen]
    /\ submitted = << >>
    /\ queries = [s \in Signatures |-> 0]
    /\ observed = {}
    /\ primary_calls = 0
    /\ fallback_calls = 0
    /\ delays = 0
    /\ last_failure = << >>
    /\ steps = << >>

-----------------------------------------------------------------------------
(* execute_jupiter_sell_attempt, up to its get_quote request *)

(* Variant: the size of the change is sold, whatever its sign. *)
amount_to_sell_Magnitude(token_change) ==
    (IF token_change < 0 THEN - token_change ELSE token_change) \div 2

(* (trade_info.token_change * 0.5) as u64: the cast truncates and takes a   *)
(* negative value to 0.                                                     *)
amount_to_sell(token_change) ==
    IF token_change < 0 THEN 0 ELSE token_change \div 2

TokenChanges == { -1000000, -3, -1, 0, 1, 3, 1000000 }

HeldBalances == { 0, 2000000 }

SlippageBps == { 100, 500 }

Extracted == { calls[i][1] : i \in { k \in 1 .. Len(calls) : calls[k] # None } }

(* The trade records the executor may be given: the extractor's, and the    *)
(* same with another token_change.                                          *)
TradeInfos ==
    Extracted \cup { [ti EXCEPT !.token_change = v] : ti \in Extracted, v \in TokenChanges }

GetQuote ==
    /\ quote = None
    /\ \E trade_info \in TradeInfos, held \in HeldBalances, slippage_bps \in SlippageBps :
         /\ trade_info.mint # ""
         /\ quote' = Some([ input_mint |-> trade_info.mint,
                            output_mint |-> WSOL_MINT,
                            amount |-> amount_to_sell(trade_info.token_change),
                            slippage_bps |-> slippage_bps,
                            trade_info |-> trade_info,
                            held |-> held ])
    /\ UNCHANGED << txn, now, calls >>
    /\ UNCHANGED << sell_vars, task_vars >>

(* The extractor called twice on one update drawn from Updates. *)
ParserInit ==
    /\ txn \in Updates
    /\ now = 0
    /\ calls = << >>
    /\ quote = None
    /\ SellIdle
    /\ TasksIdle

ParserNext == ProcessTransaction

ParserSpec == ParserInit /\ [][ParserNext]_vars

(* The extractor's record handed to the fallback venue's quote request. *)
QuoteInit ==
    /\ txn \in UpdatesWith(SeqsUpTo(LogLines, MaxLogs), { << "TokenX" >> })
    /\ now = 0
    /\ calls = << >>
    /\ quote = None
    /\ SellIdle
    /\ TasksIdle

QuoteNext == ProcessTransaction \/ GetQuote

QuoteSpec == QuoteInit /\ [][QuoteNext]_vars

-----------------------------------------------------------------------------
(* Several invocations of execute_sell_with_retry, each an async task with  *)
(* its own locals, scheduled in any interleaving.                           *)

Invocations == { "a", "b" }

(* The locals of one invocation as execute_sell_with_retry begins. *)
NewTask ==
    [ pc |-> "loop", attempt_count |-> 0, last_error |-> None, signature |-> 0,
      venue |-> "idle", retry_count |-> 0, verify_result |-> "pending",
      result |-> NoResult ]

(* What the venues and the ledger client answer to one invocation. *)
TaskRaydiumOutcomes == { "Failed to send Raydium transaction", "Ok" }

TaskJupiterOutcomes == { "Failed to get Jupiter quote", "Ok" }

TaskResponses == { NotFound, Status("Confirmed", FALSE) }

(* One step of an invocation on its own locals `t`, given the answer        *)
(* `input` of the call it awaits (ignored by a step that awaits none).      *)
TaskStep(t, input) ==
    CASE t.pc = "loop" /\ PrimaryLoopCond(t.attempt_count) ->
            IF input = "Ok"
            THEN [t EXCEPT !.attempt_count = @ + 1, !.signature = @ + 1,
                           !.venue = "primary", !.retry_count = 0,
                           !.verify_result = "pending", !.pc = "verify"]
            ELSE [t EXCEPT !.attempt_count = @ + 1,
                           !.last_error = RaydiumSellFailed(input),
                           !.pc = AfterPrimaryAttempt(t.attempt_count + 1)]
      [] t.pc = "loop" /\ ~ PrimaryLoopCond(t.attempt_count) ->
            IF input = "Ok"
            THEN [t EXCEPT !.signature = @ + 1,
                           !.venue = "fallback", !.retry_count = 0,
                           !.verify_result = "pending", !.pc = "verify"]
            ELSE [t EXCEPT !.last_error = JupiterSellFailed(input),
                           !.result = FinalFailure(JupiterSellFailed(input), t.attempt_count),
                           !.pc = "done"]
      [] t.pc = "delay" -> [t EXCEPT !.pc = "loop"]
      [] t.pc = "verify" /\ VerifyLoopCond(t.retry_count, VERIFY_RETRIES) ->
            IF IsVerified(input)
            THEN [t EXCEPT !.verify_result = "Ok(true)", !.pc = "verify_ret"]
            ELSE [t EXCEPT !.retry_count = @ + 1]
      [] t.pc = "verify" /\ ~ VerifyLoopCond(t.retry_count, VERIFY_RETRIES) ->
            [t EXCEPT !.verify_result = "Err", !.pc = "verify_ret"]
      [] t.pc = "verify_ret" /\ t.venue = "primary" ->
            IF t.verify_result = "Ok(true)"
            THEN [t EXCEPT !.result = PrimarySuccess(t.signature, t.attempt_count),
                           !.pc = "done"]
            ELSE [t EXCEPT !.last_error = PrimaryVerifyError(t.verify_result),
                           !.pc = AfterPrimaryAttempt(t.attempt_count)]
      [] t.pc = "verify_ret" /\ t.venue = "fallback" ->
            IF t.verify_result = "Ok(true)"
            THEN [t EXCEPT !.result = FallbackSuccess(t.signature, t.attempt_count),
                           !.pc = "done"]
            ELSE [t EXCEPT !.last_error = FallbackVerifyError(t.verify_result),
                           !.result = FinalFailure(FallbackVerifyError(t.verify_result),
                                                   t.attempt_count),
                           !.pc = "done"]
      [] OTHER -> t

(* Variant: attempt_count and last_error are one static pair written by     *)
(* every invocation.                                                        *)
Frame_Static(ts, i, new) ==
    [ j \in DOMAIN ts |->
        IF j = i THEN new
        ELSE [ts[j] EXCEPT !.attempt_count = new.attempt_count,
                           !.last_error = new.last_error] ]

(* `let mut attempt_count` and `let mut last_error` are locals of the       *)
(* invocation: a step of invocation i writes the frame of i alone.          *)
Frame(ts, i, new) == [ts EXCEPT ![i] = new]

Advance(i, input) ==
    /\ tasks' = Frame(tasks, i, TaskStep(tasks[i], input))
    /\ heard' = [heard EXCEPT ![i] = Append(@, input)]
    /\ UNCHANGED << sell_vars, parser_vars >>

TaskPrimaryAttempt ==
    \E i \in Invocations :
        /\ tasks[i].pc = "loop"
        /\ PrimaryLoopCond(tasks[i].attempt_count)
        /\ \E out \in TaskRaydiumOutcomes : Advance(i, out)

TaskFallbackAttempt ==
    \E i \in Invocations :
        /\ tasks[i].pc = "loop"
        /\ ~ PrimaryLoopCond(tasks[i].attempt_count)
        /\ \E out \in TaskJupiterOutcomes : Advance(i, out)

TaskVerifyQuery ==
    \E i \in Invocations :
        /\ tasks[i].pc = "verify"
        /\ VerifyLoopCond(tasks[i].retry_count, VERIFY_RETRIES)
        /\ \E resp \in TaskResponses : Advance(i, resp)

TaskVerifyExhausted ==
    \E i \in Invocations :
        /\ tasks[i].pc = "verify"
        /\ ~ VerifyLoopCond(tasks[i].retry_count, VERIFY_RETRIES)
        /\ Advance(i, "returned")

TaskVerified ==
    \E i \in Invocations :
        /\ tasks[i].pc = "verify_ret"
        /\ Advance(i, "matched")

TaskRetryDelay ==
    \E i \in Invocations :
        /\ tasks[i].pc = "delay"
        /\ Advance(i, "slept")

ConcurrentInit ==
    /\ tasks = [i \in Invocations |-> NewTask]
    /\ heard = [i \in Invocations |-> << >>]
    /\ SellIdle
    /\ ParserIdle

ConcurrentNext ==
    \/ TaskPrimaryAttempt
    \/ TaskFallbackAttempt
    \/ TaskVerifyQuery
    \/ TaskVerifyExhausted
    \/ TaskVerified
    \/ TaskRetryDelay

ConcurrentSpec == ConcurrentInit /\ [][ConcurrentNext]_vars

-----------------------------------------------------------------------------
(* Vocabulary of the properties *)

Returned == returned = "Ok"

Confirming(resp) ==
    /\ resp.kind = "Some"
    /\ resp.confirmation_status \in {"Confirmed", "Finalized"}

PrimarySubmissions == {s \in 1 .. Len(submitted) : submitted[s].venue = "primary"}

FallbackSubmissions == {s \in 1 .. Len(submitted) : submitted[s].venue = "fallback"}

VerifiedBy(by) == pc = "verify_ret" /\ venue = by /\ verify_result = "Ok(true)"

ExecutorSteps == pc' # pc \/ attempt_count' # attempt_count \/ delays' # delays

-----------------------------------------------------------------------------
(* C1: a primary attempt k whose transaction the verifier reports verified  *)
(* makes execute_sell return at once success=true, the signature of attempt *)
(* k, no error, used_fallback_venue=false and attempt_count=k, the fallback *)
(* venue never having been called; and an outcome with success=true and     *)
(* used_fallback_venue=false is produced in no other way.                   *)

C1_Outcome ==
    (Returned /\ result.success /\ ~ result.used_jupiter_fallback)
        => /\ pc = "done" /\ venue = "primary" /\ verify_result = "Ok(true)"
           /\ Len(polled) > 0 /\ Confirming(polled[Len(polled)])
           /\ result.signature = Some(signature)
           /\ signature = Len(submitted)
           /\ submitted[signature] = Submission("primary", result.attempt_count)
           /\ result.attempt_count = primary_calls
           /\ result.attempt_count \in 1 .. MAX_RETRIES
           /\ result.error = None
           /\ fallback_calls = 0
           /\ Cardinality(FallbackSubmissions) = 0
           /\ delays = result.attempt_count - 1

C1_Return ==
    (VerifiedBy("primary") /\ ExecutorSteps)
        => /\ pc' = "done"
           /\ returned' = "Ok"
           /\ result' = [ success |-> TRUE, signature |-> Some(signature),
                          error |-> None, used_jupiter_fallback |-> FALSE,
                          attempt_count |-> submitted[signature].attempt ]
           /\ UNCHANGED << submitted, fallback_calls, primary_calls, delays >>

C1_PrimarySuccessPath == [] C1_Outcome /\ [][C1_Return]_vars

C1_Witness ==
    /\ Returned /\ result.success /\ ~ result.used_jupiter_fallback
    /\ result.attempt_count = 2
    /\ result.signature = Some(2)
    /\ last_error # None

(* C2: when all MAX_RETRIES primary attempts failed and the fallback        *)
(* attempt's transaction is verified, the outcome is success=true,          *)
(* used_fallback_venue=true, the fallback signature, no error and           *)
(* attempt_count = MAX_RETRIES.                                             *)

C2_Outcome ==
    (Returned /\ result.success /\ result.used_jupiter_fallback)
        => /\ pc = "done" /\ venue = "fallback" /\ verify_result = "Ok(true)"
           /\ result.signature = Some(signature)
           /\ signature = Len(submitted)
           /\ submitted[signature].venue = "fallback"
           /\ FallbackSubmissions = {signature}
           /\ result.error = None
           /\ result.attempt_count = MAX_RETRIES
           /\ primary_calls = MAX_RETRIES

C2_Return ==
    (VerifiedBy("fallback") /\ ExecutorSteps)
        => /\ pc' = "done"
           /\ returned' = "Ok"
           /\ result' = [ success |-> TRUE, signature |-> Some(signature),
                          error |-> None, used_jupiter_fallback |-> TRUE,
                          attempt_count |-> MAX_RETRIES ]

C2_FallbackSuccessPath == [] C2_Outcome /\ [][C2_Return]_vars

C2_Witness ==
    /\ Returned /\ result.success /\ result.used_jupiter_fallback
    /\ Len(submitted) = 3
    /\ submitted[1].attempt = 1
    /\ submitted[2].attempt = 3

(* C3: when every primary attempt failed and the fallback attempt fails,    *)
(* at build/submit or at verification, the outcome is success=false, no     *)
(* signature, used_fallback_venue=true and the error of the fallback phase, *)
(* the last one met, never one recorded by a primary attempt.               *)

FallbackErrorOf(failure) ==
    IF failure[2] = "verification"
    THEN Some(<< "Jupiter transaction verification error",
                 "Transaction verification failed after retries" >>)
    ELSE Some(<< "Jupiter sell failed", failure[2] >>)

C3_Outcome ==
    (Returned /\ ~ result.success)
        => /\ pc = "done"
           /\ result.signature = None
           /\ result.used_jupiter_fallback
           /\ result.error # None
           /\ last_failure # << >> /\ last_failure[1] = "fallback"
           /\ result.error = FallbackErrorOf(last_failure)
           /\ primary_calls = MAX_RETRIES
           /\ fallback_calls = 1
           /\ PrimarySubmissions \cap observed = {}

C3_Return ==
    (fallback_calls' = 1 /\ pc' = "done" /\ pc # "done" /\ ~ VerifiedBy("fallback"))
        => /\ returned' = "Ok"
           /\ ~ result'.success
           /\ result'.error = last_error'
           /\ last_failure'[1] = "fallback"

C3_TotalFailure == [] C3_Outcome /\ [][C3_Return]_vars

C3_Witness ==
    /\ Returned /\ ~ result.success
    /\ last_failure = << "fallback", "verification" >>
    /\ Len(submitted) = MAX_RETRIES + 1

(* C4: at most one transaction submitted by an invocation is ever Confirmed *)
(* or Finalized on the ledger: once a further transaction is submitted, no  *)
(* earlier one is or becomes Confirmed or Finalized.                        *)

ConfirmedOnLedger ==
    {s \in 1 .. Len(submitted) :
        ledger[s].seen /\ ledger[s].confirmation_status \in {"Confirmed", "Finalized"}}

C4_NoDoubleSend == Cardinality(ConfirmedOnLedger) <= 1

(* C5: the verifier returns true right after the first query answered       *)
(* Confirmed or Finalized, if that query is among the first max_retries,    *)
(* having made exactly that many queries; otherwise it fails after exactly  *)
(* max_retries queries.                                                     *)

C5_PollingCount ==
    LET n == Len(polled) IN
    /\ queries[signature] = n
    /\ n <= max_retries
    /\ \A i \in 1 .. n - 1 : ~ Confirming(polled[i])
    /\ pc = "verify" => (verify_result = "pending" /\ \A i \in 1 .. n : ~ Confirming(polled[i]))
    /\ pc = "verify_ret" =>
          /\ verify_result \in {"Ok(true)", "Err"}
          /\ verify_result = "Ok(true)" <=> (n > 0 /\ Confirming(polled[n]))
          /\ verify_result = "Err" => n = max_retries
    /\ (max_retries = 5 /\ pc = "verify_ret"
          /\ polled = << NotFound, Status("Processed", FALSE), Status("Confirmed", FALSE) >>)
          => verify_result = "Ok(true)" /\ queries[signature] = 3
    /\ (max_retries = 3 /\ pc = "verify_ret" /\ polled = << NotFound, NotFound, NotFound >>)
          => verify_result = "Err" /\ queries[signature] = 3

C5_Witness ==
    /\ max_retries = 5
    /\ pc = "verify_ret"
    /\ verify_result = "Ok(true)"
    /\ polled = << NotFound, Status("Processed", FALSE), Status("Confirmed", FALSE) >>
    /\ queries[signature] = 3

(* C6: the verifier stops polling at the first answer that carries a        *)
(* transaction execution error, and a transaction the ledger reports as     *)
(* failed is never reported as verified, so no outcome has success=true     *)
(* for a transaction that failed on-chain.                                  *)

C6_NoFalsePositive ==
    /\ pc = "verify_ret" =>
          \A i \in 1 .. Len(polled) :
              (polled[i].kind = "Some" /\ polled[i].err)
                  => (i = Len(polled) /\ verify_result # "Ok(true)")
    /\ (Returned /\ result.success) => ~ ledger[result.signature[1]].err

(* C7: in every outcome the signature is present exactly when success=true, *)
(* exactly when a status query of this invocation answered Confirmed or     *)
(* Finalized for a submitted transaction; it is then the signature of the   *)
(* last submission, the one so observed; the error is present exactly when  *)
(* success=false.                                                           *)

C8_Bounded ==
    /\ returned # "Err"
    /\ primary_calls <= MAX_RETRIES
    /\ Cardinality(PrimarySubmissions) <= MAX_RETRIES
    /\ Cardinality(FallbackSubmissions) <= 1
    /\ \A s \in Signatures : queries[s] <= 3
    /\ \A s \in Signatures : s > Len(submitted) => queries[s] = 0
    /\ pc = "done" <=> Returned
    /\ (Returned /\ ~ result.success) => result.error # None

C8_AlwaysReturns == [] C8_Bounded /\ <> (pc = "done" /\ Returned)

C8_Witness ==
    /\ pc = "done" /\ Returned /\ ~ result.success
    /\ Cardinality(PrimarySubmissions) = MAX_RETRIES
    /\ Cardinality(FallbackSubmissions) = 1
    /\ \A s \in Signatures : queries[s] = 3

(* C9: the fallback venue is attempted at most once; it is attempted        *)
(* exactly when MAX_RETRIES primary attempts were made and none ended in a  *)
(* verified transaction; it is never retried, and no primary attempt is     *)
(* made once the fallback attempt has started.                              *)

C9_State ==
    /\ fallback_calls <= 1
    /\ fallback_calls = 1 =>
          /\ primary_calls = MAX_RETRIES
          /\ PrimarySubmissions \cap observed = {}
    /\ pc = "done" =>
          (fallback_calls = 0 <=> PrimarySubmissions \cap observed # {})
    /\ (pc = "loop" /\ primary_calls = MAX_RETRIES) => fallback_calls = 0
    /\ pc \in {"loop", "delay"} => fallback_calls = 0
    /\ (pc \in {"verify", "verify_ret"} /\ venue = "primary") => fallback_calls = 0
    /\ Returned => (result.used_jupiter_fallback <=> fallback_calls = 1)

C9_Step ==
    /\ fallback_calls >= 1 =>
          /\ primary_calls' = primary_calls
          /\ fallback_calls' = fallback_calls
          /\ PrimarySubmissions' = PrimarySubmissions
    /\ fallback_calls' # fallback_calls =>
          /\ fallback_calls' = 1
          /\ primary_calls = MAX_RETRIES
    /\ (pc = "loop" /\ primary_calls = MAX_RETRIES /\ ExecutorSteps) => fallback_calls' = 1

C9_FallbackOnce == [] C9_State /\ [][C9_Step]_vars

C9_Witness ==
    /\ pc = "done"
    /\ fallback_calls = 1
    /\ primary_calls = MAX_RETRIES
    /\ ~ result.success
    /\ Len(submitted) = 2

(* C10: in every outcome attempt_count is the number of primary attempts    *)
(* started, between 1 and MAX_RETRIES, whatever the way each failed; the    *)
(* fallback attempt is not counted, so used_fallback_venue=true implies     *)
(* attempt_count = MAX_RETRIES and used_fallback_venue=false implies        *)
(* success=true.                                                            *)

C10_AttemptCount ==
    /\ attempt_count = primary_calls
    /\ Returned =>
          /\ result.attempt_count = primary_calls
          /\ result.attempt_count \in 1 .. MAX_RETRIES
          /\ result.attempt_count >= Cardinality(PrimarySubmissions)
          /\ result.used_jupiter_fallback => result.attempt_count = MAX_RETRIES
          /\ ~ result.used_jupiter_fallback => result.success

C10_Witness ==
    /\ Returned
    /\ result.used_jupiter_fallback
    /\ result.attempt_count = MAX_RETRIES
    /\ fallback_calls = 1
    /\ Cardinality(PrimarySubmissions) = 1
    /\ Cardinality(FallbackSubmissions) = 1

(* C16: within one invocation no attempt begins before the previous one     *)
(* ended with a known outcome; inside an attempt the calls are made in the  *)
(* order build, blockhash, submit, verify, the first failing call ends the  *)
(* attempt, nothing is submitted after a build, blockhash, quote or route   *)
(* failure, and the verifier is called only for an attempt whose submission *)
(* returned a signature.                                                    *)

IsPrefix(a, b) == Len(a) <= Len(b) /\ \A i \in 1 .. Len(a) : a[i] = b[i]

Called(step) == \E i \in 1 .. Len(steps) : steps[i] = step

AttemptOpen == pc \in {"verify", "verify_ret"}

StepsBeforeFailure(cause) ==
    CASE cause = "Failed to build Raydium swap" -> << "build" >>
      [] cause = "Failed to get recent blockhash" -> << "build", "blockhash" >>
      [] cause \in {"Failed to send Raydium transaction",
                    "No signature returned from Raydium transaction",
                    "Failed to parse signature"} -> << "build", "blockhash", "submit" >>
      [] cause \in {"Failed to get wallet public key", "Invalid token mint"} -> << >>
      [] cause = "Failed to get Jupiter quote" -> << "quote" >>
      [] cause = "Failed to get Jupiter swap transaction" -> << "quote", "route" >>
      [] cause = "Failed to send Jupiter transaction" -> << "quote", "route", "submit" >>
      [] cause = "verification" -> IF fallback_calls = 0
                                   THEN << "build", "blockhash", "submit", "verify" >>
                                   ELSE << "quote", "route", "submit", "verify" >>

C16_State ==
    /\ \/ IsPrefix(steps, << "build", "blockhash", "submit", "verify" >>)
       \/ IsPrefix(steps, << "quote", "route", "submit", "verify" >>)
    /\ Called("verify") =>
          /\ Called("submit")
          /\ signature = Len(submitted)
          /\ signature >= 1
          /\ submitted[signature].attempt = attempt_count
    /\ AttemptOpen => Called("verify")
    /\ Len(submitted) <= primary_calls + fallback_calls
    /\ (~ AttemptOpen /\ last_failure # << >> /\ ~ (Returned /\ result.success)) =>
          steps = StepsBeforeFailure(last_failure[2])

C16_Step ==
    /\ (primary_calls' # primary_calls \/ fallback_calls' # fallback_calls) =>
          /\ ~ AttemptOpen
          /\ Called("verify") => verify_result \in {"Ok(true)", "Err"}
          /\ primary_calls' + fallback_calls' = primary_calls + fallback_calls + 1
    /\ submitted' # submitted =>
          /\ Len(submitted') = Len(submitted) + 1
          /\ IsPrefix(<< "build", "blockhash", "submit" >>, steps')
                \/ IsPrefix(<< "quote", "route", "submit" >>, steps')
          /\ pc' = "verify"

C16_StrictSequencing == [] C16_State /\ [][C16_Step]_vars

C16_Witness ==
    /\ pc = "verify"
    /\ steps = << "build", "blockhash", "submit", "verify" >>
    /\ primary_calls = 3
    /\ Len(submitted) = 1
    /\ last_failure = << "primary", "No signature returned from Raydium transaction" >>

(* C17: the executor sleeps the inter-attempt delay exactly once after each *)
(* failed primary attempt but the last allowed one, never after the last    *)
(* one (the fallback attempt starts right after it) and never after a       *)
(* verified attempt.                                                        *)

FailedPrimaryAttempts ==
    IF fallback_calls > 0 \/ pc \in {"loop", "delay"}
    THEN primary_calls
    ELSE primary_calls - 1

Smaller(a, b) == IF a < b THEN a ELSE b

C17_State ==
    /\ delays = Smaller(FailedPrimaryAttempts, MAX_RETRIES - 1) - (IF pc = "delay" THEN 1 ELSE 0)
    /\ pc = "delay" => primary_calls < MAX_RETRIES
    /\ fallback_calls > 0 => delays = MAX_RETRIES - 1
    /\ (Returned /\ ~ result.used_jupiter_fallback) => delays = result.attempt_count - 1

C17_Step ==
    /\ delays' # delays =>
          /\ delays' = delays + 1
          /\ pc = "delay" /\ pc' = "loop"
          /\ last_failure # << >> /\ last_failure[1] = "primary"
          /\ primary_calls < MAX_RETRIES
    /\ fallback_calls' # fallback_calls =>
          /\ delays' = delays
          /\ delays = MAX_RETRIES - 1

C17_InterAttemptDelay == [] C17_State /\ [][C17_Step]_vars

C17_Witness ==
    /\ fallback_calls = 1
    /\ delays = MAX_RETRIES - 1
    /\ Len(submitted) = 2
    /\ submitted[1].attempt = 2

(* C18: in the verifier every query not answered Confirmed/Finalized is     *)
(* followed by exactly one backoff wait and no wait follows a successful    *)
(* query; the waits never exceed max_retries, equal max_retries on timeout, *)
(* and with max_retries = 0 the verifier fails without a query or a wait.   *)

Unconfirmed == {i \in 1 .. Len(polled) : ~ Confirming(polled[i])}

C18_BackoffBound ==
    /\ sleeps = Cardinality(Unconfirmed)
    /\ sleeps <= max_retries
    /\ (pc = "verify_ret" /\ verify_result = "Err") => sleeps = max_retries
    /\ (pc = "verify_ret" /\ verify_result = "Ok(true)") => sleeps = Len(polled) - 1
    /\ max_retries = 0 => (polled = << >> /\ sleeps = 0 /\ verify_result # "Ok(true)")

C18_Witness ==
    /\ pc = "verify_ret"
    /\ verify_result = "Err"
    /\ max_retries = 4
    /\ sleeps = 4
    /\ polled[4] = QueryError

-----------------------------------------------------------------------------
(* Vocabulary of the extractor's properties *)

AccountKeysOf(t) ==
    IF t.transaction = None THEN << >>
    ELSE IF t.transaction[1].transaction = None THEN << >>
    ELSE IF t.transaction[1].transaction[1].message = None THEN << >>
    ELSE t.transaction[1].transaction[1].message[1].account_keys

Relevant(t) ==
    \E i \in 1 .. Len(AccountKeysOf(t)) : AccountKeysOf(t)[i] = RAYDIUM_LAUNCHPAD_PROGRAM

LogsOf(t) ==
    IF t.transaction = None \/ t.transaction[1].meta = None THEN << >>
    ELSE t.transaction[1].meta[1].log_messages

BalancesOf(t) ==
    IF t.transaction = None \/ t.transaction[1].meta = None THEN << >>
    ELSE t.transaction[1].meta[1].post_token_balances

Logged(t, marker) == \E i \in 1 .. Len(LogsOf(t)) : contains(LogsOf(t)[i], marker)

Records == { i \in 1 .. Len(calls) : calls[i] # None }

(* C11: an update whose account keys do not hold the venue's program id,    *)
(* or that has no transaction or no message, yields nothing, whatever its   *)
(* logs, balances and inner instructions.                                   *)

C11_RelevanceFilter ==
    \A i \in 1 .. Len(calls) : ~ Relevant(txn) => calls[i] = None

C11_Witness ==
    /\ Len(calls) = 2
    /\ calls[1] = None
    /\ AccountKeysOf(txn) = << "OtherProgram" >>
    /\ LogsOf(txn) = << BuyLiteral >>
    /\ txn.transaction[1].meta[1].inner_instructions
          = Some(<< Inner(<< Instr(Some("payload")) >>) >>)

(* C12, as stated: with the markers `Instruction: Buy`, `Instruction: Sell` *)
(* and `Instruction: Swap`, is_buy is true exactly when some log line       *)
(* contains the Buy or the Swap marker.                                     *)

C12_DirectionAsStated ==
    \A i \in Records :
        /\ calls[i][1].is_buy <=>
              (Logged(txn, << "Instruction:", "Buy" >>) \/ Logged(txn, << "Instruction:", "Swap" >>))
        /\ (Logged(txn, << "Instruction:", "Buy" >>)
              /\ ~ Logged(txn, << "Instruction:", "Sell" >>)
              /\ ~ Logged(txn, << "Instruction:", "Swap" >>)) => calls[i][1].is_buy

(* C12, amended: the markers are the literals `Program log: Instruction:    *)
(* Buy`, `... Sell` and `... Swap`; a record is a sell when only the Sell   *)
(* literal is logged, a buy when only the Buy literal is, and in general    *)
(* is_buy is true exactly when a log line contains the Buy or the Swap      *)
(* literal, so Swap, and Buy together with Sell, resolve to buy.            *)

C12_Direction ==
    \A i \in Records :
        LET buy  == Logged(txn, << "Program", "log:", "Instruction:", "Buy" >>)
            sell == Logged(txn, << "Program", "log:", "Instruction:", "Sell" >>)
            swap == Logged(txn, << "Program", "log:", "Instruction:", "Swap" >>)
        IN  /\ calls[i][1].is_buy <=> (buy \/ swap)
            /\ (sell /\ ~ buy /\ ~ swap) => ~ calls[i][1].is_buy
            /\ (buy /\ ~ sell /\ ~ swap) => calls[i][1].is_buy
            /\ swap => calls[i][1].is_buy
            /\ (buy /\ sell) => calls[i][1].is_buy

C12_Witness ==
    /\ Records = {1, 2}
    /\ LogsOf(txn) = << SellLiteral, SwapLiteral >>
    /\ calls[1][1].is_buy

(* C13: the resolved mint is the first snapshot's mint, unless that is the  *)
(* wrapped-native mint and a second snapshot exists, whose mint it then is; *)
(* with no snapshot, or an empty mint so obtained, it is the default mint;  *)
(* snapshots after the second are never consulted.                          *)

C13_MintResolution ==
    \A i \in Records :
        LET b    == BalancesOf(txn)
            mint == calls[i][1].mint
        IN  /\ b = << >> => mint = DEFAULT_MINT
            /\ (b # << >> /\ b[1] \notin {WSOL_MINT, ""}) => mint = b[1]
            /\ (b # << >> /\ b[1] = "") => mint = DEFAULT_MINT
            /\ (Len(b) = 1 /\ b[1] = WSOL_MINT) => mint = WSOL_MINT
            /\ (Len(b) >= 2 /\ b[1] = WSOL_MINT /\ b[2] # "") => mint = b[2]
            /\ (Len(b) >= 2 /\ b[1] = WSOL_MINT /\ b[2] = "") => mint = DEFAULT_MINT
            /\ b = << WSOL_MINT, "TokenX" >> => mint = "TokenX"
            /\ b = << "TokenX" >> => mint = "TokenX"

C13_Witness ==
    /\ Records # {}
    /\ BalancesOf(txn) = << WSOL_MINT, WSOL_MINT, "TokenX" >>
    /\ calls[1][1].mint = WSOL_MINT

(* C14: two calls of the extractor on the same update, at any two moments   *)
(* of the wall clock, return identical values in every field, the           *)
(* timestamp included.                                                      *)

C14_Idempotent == Len(calls) = 2 => calls[1] = calls[2]

(* C15: an update whose account keys hold the venue's program id always     *)
(* yields a record, also without metadata, without inner-instruction        *)
(* records or without an inner instruction carrying a payload.              *)

C15_RelevantYieldsRecord ==
    \A i \in 1 .. Len(calls) : Relevant(txn) => calls[i] # None

(* C20: the amount of the fallback venue's quote request is half of the     *)
(* record's token_change, truncated, a negative value giving 0, whatever    *)
(* the wallet holds and whatever sell_config says: 500000 for a buy record  *)
(* of the extractor and 0 for a sell record.                                *)

RECURSIVE RunAlone(_, _)
RunAlone(answers, n) ==
    IF n = 0 THEN NewTask ELSE TaskStep(RunAlone(answers, n - 1), answers[n])

C19_State ==
    \A i \in DOMAIN tasks : tasks[i] = RunAlone(heard[i], Len(heard[i]))

C19_Step ==
    \A i \in DOMAIN tasks :
        heard'[i] = heard[i] =>
            /\ tasks'[i].attempt_count = tasks[i].attempt_count
            /\ tasks'[i].last_error = tasks[i].last_error
            /\ tasks'[i] = tasks[i]

====
